---- MODULE Spec2Model ----
(***************************************************************************)
(* Binary quantization operators (Quantize / Dequantize) of                *)
(* kernel/quantization.cc and the grouped reduction operator of            *)
(* lite/kernels/unsorted_segment_prod.cc, as state machines driven by the  *)
(* host runtime: Prepare, then Eval when Prepare returned Ok.              *)
(*                                                                         *)
(* A tensor is a record [type, dims, data, zero_point, scale]:             *)
(*   dims   sequence of dimension sizes (rank >= 1)                        *)
(*   data   row-major sequence of elements, Len(data) = FlatSize(dims)     *)
(*          float32: the value in tenths (10 is 1.0, -3 is -0.3)           *)
(*          int8   : an integer in -128..127                               *)
(*          bool   : the storage byte, 0..255 (0 is false)                 *)
(*          int32  : a packed word, a sequence of W bits; bit position i   *)
(*                   of the word is element i+1 of the sequence            *)
(*   scale  the rational <<num, den>> = num/den                            *)
(***************************************************************************)
EXTENDS Integers, Sequences, FiniteSets, TLC

\* ------------------------------------------------------------------ bounds
\* Width of a packed word (the digits of TBitpacked, 32 in the build).
W == 4
\* Largest number of rows (product of the non-last dimensions) of a tensor.
MaxRows == 2
\* Largest last dimension of an unpacked tensor.
MaxCols == 5
\* Largest length of the one-row tensors of the value specifications.
MaxLen == 4

\* ------------------------------------------------------- program constants
\* Threshold handed to bitpack_tensor for float32 input.
FloatZeroPoint == 0
\* Threshold handed to bitpack_tensor for bool input: BOOL_UINT(1).
BoolZeroPoint == 1
\* std::min(127, ...) of the zero-bit result.
Int8Max == 127
\* std::max(-128, ...) of the one-bit result.
Int8Min == -128

kTfLiteOk == "Ok"
kTfLiteError == "Error"

kTfLiteFloat32 == "float32"
kTfLiteInt8 == "int8"
kTfLiteBool == "bool"
kTfLiteInt32 == "int32"
kTfLiteUInt8 == "uint8"

Types == {kTfLiteFloat32, kTfLiteInt8, kTfLiteBool, kTfLiteInt32, kTfLiteUInt8}
Supported == {kTfLiteFloat32, kTfLiteInt8, kTfLiteBool}

\* ------------------------------------------------------------ shape helpers
RECURSIVE Prod(_)
Prod(s) == IF s = << >> THEN 1 ELSE Head(s) * Prod(Tail(s))

FlatSize(dims) == Prod(dims)

NumDimensions(t) == Len(t.dims)

\* i is the zero-based dimension index of the source.
SizeOfDimension(t, i) == t.dims[i + 1]

\* Product of every dimension but the zero-based dimension skip.
FlatSizeSkipDim(dims, skip) ==
    Prod([k \in 1..Len(dims) |-> IF k = skip + 1 THEN 1 ELSE dims[k]])

CeilDiv(a, b) == (a + b - 1) \div b

\* PackedSize of the design: ceil(unpacked / W), 0 for 0.
GetBitpackedSize(unpacked_elements) == CeilDiv(unpacked_elements, W)

\* ------------------------------------------------------------- arithmetic
\* Conversion of an int to std::int8_t: the low 8 bits, two's complement.
ToInt8(x) == ((x + 128) % 256) - 128

\* std::round of the rational a/b, b > 0: halfway cases away from zero.
RoundDiv(a, b) ==
    IF a >= 0 THEN (2 * a + b) \div (2 * b)
              ELSE -((2 * (-a) + b) \div (2 * b))

\* TfLiteRound(1.0f / scale) for scale = num/den, num # 0.
TfLiteRound(scale) ==
    IF scale[1] > 0 THEN RoundDiv(scale[2], scale[1])
                    ELSE RoundDiv(-scale[2], -scale[1])

\* ------------------------------------------------------------- the codec
\* ThresholdPolicy: bit 1 iff the value is less than the threshold.
ThresholdBit(value, zero_point) == IF value < zero_point THEN 1 ELSE 0

\* bitpack_tensor leaving the positions beyond the element count as the
\* output buffer held them.
bitpack_tensor_NoPadding(in_shape, in_data, zero_point, out_data) ==
    LET count == FlatSize(in_shape)
        nwords == CeilDiv(count, W)
    IN  [w \in 1..Len(out_data) |->
            IF w <= nwords
            THEN [i \in 1..W |->
                    LET f == (w - 1) * W + i
                    IN  IF f <= count THEN ThresholdBit(in_data[f], zero_point)
                                      ELSE out_data[w][i]]
            ELSE out_data[w]]

\* Pack: element of flattened index f goes to word f \div W, position f % W;
\* positions beyond the element count in the last written word are zero.
\* Words of the output buffer beyond the last written word keep their
\* content.
bitpack_tensor(in_shape, in_data, zero_point, out_data) ==
    LET count == FlatSize(in_shape)
        nwords == CeilDiv(count, W)
    IN  [w \in 1..Len(out_data) |->
            IF w <= nwords
            THEN [i \in 1..W |->
                    LET f == (w - 1) * W + i
                    IN  IF f <= count THEN ThresholdBit(in_data[f], zero_point)
                                      ELSE 0]
            ELSE out_data[w]]

\* Unpack: row-major over the (num_rows, num_cols) view; every row starts at
\* a word boundary and spans GetBitpackedSize(num_cols) words.  v0 is the
\* zero_bit_result and v1 the one_bit_result.
unpack_matrix(input_data, num_rows, num_cols, output_data, v0, v1) ==
    [k \in 1..Len(output_data) |->
        IF k <= num_rows * num_cols
        THEN LET r == (k - 1) \div num_cols
                 c == (k - 1) % num_cols
                 word == input_data[r * GetBitpackedSize(num_cols) + (c \div W) + 1]
             IN  IF word[(c % W) + 1] = 0 THEN v0 ELSE v1
        ELSE output_data[k]]

\* ------------------------------------------------------ operator bodies
\* QuantizeChecks without the check of the output's datatype.
QuantizeChecks_NoOutputType(nin, nout, in, out) ==
    /\ nin = 1
    /\ nout = 1
    /\ in.type \in {kTfLiteFloat32, kTfLiteInt8, kTfLiteBool}
    /\ NumDimensions(in) = NumDimensions(out)

\* QuantizePrepare's checks before the resize.
QuantizeChecks(nin, nout, in, out) ==
    /\ nin = 1
    /\ nout = 1
    /\ in.type \in {kTfLiteFloat32, kTfLiteInt8, kTfLiteBool}
    /\ out.type = kTfLiteInt32
    /\ NumDimensions(in) = NumDimensions(out)

\* QuantizeOutputDims with the last dimension rounded down.
QuantizeOutputDims_Floor(in) ==
    LET num_dims == NumDimensions(in)
    IN  [in.dims EXCEPT ![num_dims] =
            SizeOfDimension(in, num_dims - 1) \div W]

\* The dimensions QuantizePrepare hands to ResizeTensor.
QuantizeOutputDims(in) ==
    LET num_dims == NumDimensions(in)
    IN  [in.dims EXCEPT ![num_dims] =
            GetBitpackedSize(SizeOfDimension(in, num_dims - 1))]

\* DequantizeChecks comparing the packed size with the size rounded down.
DequantizeChecks_Floor(nin, nout, in, out) ==
    /\ nin = 1
    /\ nout = 1
    /\ in.type = kTfLiteInt32
    /\ out.type \in {kTfLiteFloat32, kTfLiteInt8, kTfLiteBool}
    /\ NumDimensions(in) = NumDimensions(out)
    /\ \A i \in 0..(NumDimensions(in) - 2) :
          SizeOfDimension(out, i) = SizeOfDimension(in, i)
    /\ SizeOfDimension(in, NumDimensions(in) - 1) =
          SizeOfDimension(out, NumDimensions(in) - 1) \div W

\* DequantizePrepare's checks; it returns Ok exactly when they hold.
DequantizeChecks(nin, nout, in, out) ==
    /\ nin = 1
    /\ nout = 1
    /\ in.type = kTfLiteInt32
    /\ out.type \in {kTfLiteFloat32, kTfLiteInt8, kTfLiteBool}
    /\ NumDimensions(in) = NumDimensions(out)
    /\ \A i \in 0..(NumDimensions(in) - 2) :
          SizeOfDimension(out, i) = SizeOfDimension(in, i)
    /\ SizeOfDimension(in, NumDimensions(in) - 1) =
          GetBitpackedSize(SizeOfDimension(out, NumDimensions(in) - 1))

\* QuantizeZeroPoint with the int8 threshold fixed at 0.
QuantizeZeroPoint_Int8Zero(in) ==
    CASE in.type = kTfLiteFloat32 -> FloatZeroPoint
      [] in.type = kTfLiteInt8 -> 0
      [] in.type = kTfLiteBool -> BoolZeroPoint

\* QuantizeZeroPoint with bool unified with the numeric threshold 0.
QuantizeZeroPoint_BoolNumeric(in) ==
    CASE in.type = kTfLiteFloat32 -> FloatZeroPoint
      [] in.type = kTfLiteInt8 -> in.zero_point
      [] in.type = kTfLiteBool -> FloatZeroPoint

\* The threshold QuantizeEval hands to bitpack_tensor for a supported type.
QuantizeZeroPoint(in) ==
    CASE in.type = kTfLiteFloat32 -> FloatZeroPoint
      [] in.type = kTfLiteInt8 -> in.zero_point
      [] in.type = kTfLiteBool -> BoolZeroPoint

\* ReconstructionValues with the bool pair the other way round.
ReconstructionValues_BoolSwapped(out) ==
    CASE out.type = kTfLiteFloat32 -> <<10, -10>>
      [] out.type = kTfLiteInt8 ->
            LET offset == TfLiteRound(out.scale)
                zero_bit == IF Int8Max < out.zero_point + offset
                            THEN Int8Max ELSE out.zero_point + offset
                one_bit == IF Int8Min > out.zero_point - offset
                           THEN Int8Min ELSE out.zero_point - offset
            IN  <<ToInt8(zero_bit), ToInt8(one_bit)>>
      [] out.type = kTfLiteBool -> <<0, 1>>

\* ReconstructionValues with zero_point + offset for both int8 results.
ReconstructionValues_SameSign(out) ==
    CASE out.type = kTfLiteFloat32 -> <<10, -10>>
      [] out.type = kTfLiteInt8 ->
            LET offset == TfLiteRound(out.scale)
                zero_bit == IF Int8Max < out.zero_point + offset
                            THEN Int8Max ELSE out.zero_point + offset
                one_bit == IF Int8Min > out.zero_point + offset
                           THEN Int8Min ELSE out.zero_point + offset
            IN  <<ToInt8(zero_bit), ToInt8(one_bit)>>
      [] out.type = kTfLiteBool -> <<1, 0>>

\* The pair <<zero_bit_result, one_bit_result>> DequantizeEval hands to
\* unpack_matrix for a supported type.
ReconstructionValues(out) ==
    CASE out.type = kTfLiteFloat32 -> <<10, -10>>
      [] out.type = kTfLiteInt8 ->
            LET offset == TfLiteRound(out.scale)
                zero_bit == IF Int8Max < out.zero_point + offset
                            THEN Int8Max ELSE out.zero_point + offset
                one_bit == IF Int8Min > out.zero_point - offset
                           THEN Int8Min ELSE out.zero_point - offset
            IN  <<ToInt8(zero_bit), ToInt8(one_bit)>>
      [] out.type = kTfLiteBool -> <<1, 0>>

\* ------------------------------------------------------------------ state
VARIABLES
    op,          \* the operator of the node: "Quantize" or "Dequantize"
    numInputs,   \* NumInputs(node)
    numOutputs,  \* NumOutputs(node)
    input,       \* the node's input tensor 0
    output,      \* the node's output tensor 0
    pc,          \* "init", "prepared", "failed" or "done"
    status,      \* status of the last callback: "none", "Ok" or "Error"
    resized,     \* ResizeTensor was called on the output of this node
    writes,      \* number of output elements stored by this node's Eval
    stage,       \* 1: first node of the graph, 2: second node
    orig,        \* the input tensor of the first node
    out0,        \* the output tensor as the host handed it to this node
    seg          \* the grouped-reduction node (see below)

qvars == <<op, numInputs, numOutputs, input, output, pc, status, resized,
           writes, stage, orig, out0>>
vars == <<qvars, seg>>

\* ------------------------------------------------------- tensor builders
ZeroWord == [i \in 1..W |-> 0]
OneWord == [i \in 1..W |-> 1]
FillWord(j) == [i \in 1..W |-> j]

\* Content of a buffer the operator has not written: every bit j.
Junk(type, n, j) ==
    [k \in 1..n |-> IF type = kTfLiteInt32 THEN FillWord(j) ELSE j]

Tensor(type, dims, data, zp, scale) ==
    [type |-> type, dims |-> dims, data |-> data,
     zero_point |-> zp, scale |-> scale]

\* Shapes of rank 1 and 2 with last dimension taken from cols.
Shapes(rows, cols) ==
    {<<n>> : n \in cols} \cup {<<r, n>> : r \in rows, n \in cols}

\* --------------------------------------------------------------- actions
\* ResizeTensor of the host: the output takes the requested dimensions and
\* a buffer of that size holding unrelated content.
QuantizePrepare ==
    /\ op = "Quantize"
    /\ pc = "init"
    /\ IF QuantizeChecks(numInputs, numOutputs, input, output)
       THEN /\ \E j \in {0, 1} :
                 LET output_dims == QuantizeOutputDims(input)
                 IN  output' = [output EXCEPT
                                   !.dims = output_dims,
                                   !.data = Junk(output.type,
                                                 FlatSize(output_dims), j)]
            /\ resized' = TRUE
            /\ status' = kTfLiteOk
            /\ pc' = "prepared"
       ELSE /\ status' = kTfLiteError
            /\ pc' = "failed"
            /\ UNCHANGED <<output, resized>>
    /\ UNCHANGED <<op, numInputs, numOutputs, input, writes, stage, orig,
                   out0, seg>>

DequantizePrepare ==
    /\ op = "Dequantize"
    /\ pc = "init"
    /\ IF DequantizeChecks(numInputs, numOutputs, input, output)
       THEN /\ status' = kTfLiteOk
            /\ pc' = "prepared"
       ELSE /\ status' = kTfLiteError
            /\ pc' = "failed"
    /\ UNCHANGED <<op, numInputs, numOutputs, input, output, resized, writes,
                   stage, orig, out0, seg>>

\* The host invokes Eval after a Prepare that returned Ok.  A caller may
\* also invoke Eval on a node it has set up itself, without Prepare; the
\* buffers then have the sizes the kernels index (or the datatype is one
\* Eval refuses).
QuantizeInvocable ==
    \/ pc = "prepared"
    \/ /\ pc = "init"
       /\ numInputs = 1
       /\ numOutputs = 1
       /\ \/ input.type \notin Supported
          \/ /\ QuantizeChecks(numInputs, numOutputs, input, output)
             /\ output.dims = QuantizeOutputDims(input)

DequantizeInvocable ==
    \/ pc = "prepared"
    \/ /\ pc = "init"
       /\ numInputs = 1
       /\ numOutputs = 1
       /\ \/ output.type \notin Supported
          \/ DequantizeChecks(numInputs, numOutputs, input, output)

QuantizeEval ==
    /\ op = "Quantize"
    /\ QuantizeInvocable
    /\ IF input.type \in {kTfLiteFloat32, kTfLiteInt8, kTfLiteBool}
       THEN /\ output' = [output EXCEPT !.data =
                    bitpack_tensor(input.dims, input.data,
                                   QuantizeZeroPoint(input), output.data)]
            /\ writes' = writes + CeilDiv(FlatSize(input.dims), W)
            /\ status' = kTfLiteOk
       ELSE /\ status' = kTfLiteError
            /\ UNCHANGED <<output, writes>>
    /\ pc' = "done"
    /\ UNCHANGED <<op, numInputs, numOutputs, input, resized, stage, orig,
                   out0, seg>>

DequantizeEval ==
    /\ op = "Dequantize"
    /\ DequantizeInvocable
    /\ LET dims == Len(output.dims)
           num_rows == FlatSizeSkipDim(output.dims, dims - 1)
           num_cols == output.dims[dims]
       IN  IF output.type \in {kTfLiteFloat32, kTfLiteInt8, kTfLiteBool}
           THEN /\ output' = [output EXCEPT !.data =
                        unpack_matrix(input.data, num_rows, num_cols,
                                      output.data,
                                      ReconstructionValues(output)[1],
                                      ReconstructionValues(output)[2])]
                /\ writes' = writes + num_rows * num_cols
                /\ status' = kTfLiteOk
           ELSE /\ status' = kTfLiteError
                /\ UNCHANGED <<output, writes>>
    /\ pc' = "done"
    /\ UNCHANGED <<op, numInputs, numOutputs, input, resized, stage, orig,
                   out0, seg>>

\* The host wires the inverse operator behind a node that returned Ok: its
\* input is the first node's output; its output is a tensor the caller
\* declares (for Dequantize with the shape, type and quantization
\* parameters of the original unpacked tensor).
Chain ==
    /\ pc = "done"
    /\ status = kTfLiteOk
    /\ stage = 1
    /\ stage' = 2
    /\ input' = output
    /\ \E j \in {0, 1} :
          IF op = "Quantize"
          THEN /\ op' = "Dequantize"
               /\ output' = Tensor(orig.type, orig.dims,
                                   Junk(orig.type, FlatSize(orig.dims), j),
                                   orig.zero_point, orig.scale)
          ELSE /\ op' = "Quantize"
               /\ output' = Tensor(kTfLiteInt32, output.dims,
                                   Junk(kTfLiteInt32, FlatSize(output.dims), j),
                                   0, <<1, 1>>)
    /\ out0' = output'
    /\ pc' = "init"
    /\ status' = "none"
    /\ resized' = FALSE
    /\ writes' = 0
    /\ UNCHANGED <<numInputs, numOutputs, orig, seg>>

NextQ ==
    \/ QuantizePrepare
    \/ QuantizeEval
    \/ DequantizePrepare
    \/ DequantizeEval
    \/ Chain

\* A node as the host hands it to Prepare.
InitNode(o, nin, nout, in, out) ==
    /\ op = o
    /\ numInputs = nin
    /\ numOutputs = nout
    /\ input = in
    /\ output = out
    /\ pc = "init"
    /\ status = "none"
    /\ resized = FALSE
    /\ writes = 0
    /\ stage = 1
    /\ orig = in
    /\ out0 = out
    /\ seg = [pc |-> "off"]

\* Nodes of every arity, datatype pair and pair of shapes.
AllShapes == Shapes(0..MaxRows, 0..MaxCols)
Arities == {<<1, 1>>, <<0, 1>>, <<2, 1>>, <<1, 2>>}

Init ==
    \E o \in {"Quantize", "Dequantize"}, ar \in Arities,
       it \in Types, ot \in Types, id \in AllShapes, od \in AllShapes :
        InitNode(o, ar[1], ar[2],
                 Tensor(it, id, Junk(it, FlatSize(id), 0), 0, <<1, 1>>),
                 Tensor(ot, od, Junk(ot, FlatSize(od), 1), 0, <<1, 1>>))

Next == NextQ

Spec == Init /\ [][Next]_vars

\* ------------------------------------------- boolean tensors of every shape
\* Quantize nodes over boolean tensors (storage bytes 0 and 1) of every
\* shape; the output is an int32 tensor of the same rank.
InitBool ==
    \E id \in AllShapes :
      \E d \in [1..FlatSize(id) -> {0, 1}] :
        InitNode("Quantize", 1, 1,
                 Tensor(kTfLiteBool, id, d, 0, <<1, 1>>),
                 Tensor(kTfLiteInt32, id,
                        Junk(kTfLiteInt32, FlatSize(id), 1), 0, <<1, 1>>))

SpecBool == InitBool /\ [][Next]_vars

\* --------------------------------------------- packed buffers of every shape
\* The words a packed buffer is filled with: all zero, all one, alternating.
SomeWords ==
    {ZeroWord, OneWord, [i \in 1..W |-> i % 2], [i \in 1..W |-> (i + 1) % 2]}

\* Zero points and scales of the int8 destination.
NumZeroPoints == {-128, -1, 127, 200}
NumScales == {<<1, 127>>, <<1, 1>>, <<4, 1>>, <<-1, 50>>}

\* <<type, zero_point, scale>> of the numeric destinations.
NumParams ==
    {<<kTfLiteFloat32, 0, <<1, 1>> >>}
    \cup {<<kTfLiteInt8, z, s>> : z \in NumZeroPoints, s \in NumScales}

PackedShapes == Shapes(0..MaxRows, 0..GetBitpackedSize(MaxCols))

\* Dequantize nodes over packed buffers of every shape; the caller declares
\* a float32 or int8 destination with the same leading dimensions.
InitNum ==
    \E id \in PackedShapes, n \in 0..MaxCols, pr \in NumParams :
      \E d \in [1..FlatSize(id) -> SomeWords] :
        LET od == [id EXCEPT ![Len(id)] = n]
        IN  InitNode("Dequantize", 1, 1,
                     Tensor(kTfLiteInt32, id, d, 0, <<1, 1>>),
                     Tensor(pr[1], od, Junk(pr[1], FlatSize(od), 0),
                            pr[2], pr[3]))

SpecNum == InitNum /\ [][Next]_vars

\* ------------------------------------------------ one-row tensors, all values
FloatValues == {-10, -3, 0, 5, 20}
Int8Values == {-128, -1, 0, 1, 127}
BoolBytes == {0, 1, 2, 255}
ZeroPoints == {-128, -100, -1, 0, 1, 100, 127, 200}
Scales == {<<1, 127>>, <<1, 1>>, <<2, 1>>, <<4, 1>>, <<-1, 50>>, <<1, 300>>}
AllWords == [1..W -> {0, 1}]

\* <<type, element values, zero points, scales>> of the unpacked tensors.
ValueKinds ==
    {<<kTfLiteFloat32, FloatValues, {0}, {<<1, 1>>}>>,
     <<kTfLiteInt8, Int8Values, ZeroPoints, Scales>>,
     <<kTfLiteBool, BoolBytes, {0}, {<<1, 1>>}>>}

\* Quantize nodes over one-row tensors of every supported type and value,
\* and Dequantize nodes over one packed row with every destination type,
\* zero point and scale.
InitValue ==
    \E kind \in ValueKinds, n \in 1..MaxLen :
      \E z \in kind[3], s \in kind[4] :
        \/ \E d \in [1..n -> kind[2]] :
             InitNode("Quantize", 1, 1,
                      Tensor(kind[1], <<n>>, d, z, s),
                      Tensor(kTfLiteInt32, <<n>>,
                             Junk(kTfLiteInt32, n, 1), 0, <<1, 1>>))
        \/ \E d \in [1..GetBitpackedSize(n) -> AllWords] :
             InitNode("Dequantize", 1, 1,
                      Tensor(kTfLiteInt32, <<GetBitpackedSize(n)>>, d,
                             0, <<1, 1>>),
                      Tensor(kind[1], <<n>>, Junk(kind[1], n, 0), z, s))

SpecValue == InitValue /\ [][Next]_vars

\* ===================================================== grouped reduction
\* seg is the node of the grouped-reduction operator:
\*   numInputs, numOutputs   arity of the node
\*   data     [type, dims, data, dynamic]       kInputDataTensor
\*   ids      [type, dims, data, constant]      kInputSegmentIdsTensor
\*   num      [dims, data, constant]            kInputNumSegmentsTensor
\*   out      [dims, data, dynamic]             kOutputTensor
\*   pc       "init", "prepared", "failed" or "done"
\*   status   status of the last callback
\*   reduced  the reduction ran

\* Largest number of rows of the data tensor and of segment ids.
MaxIds == 2
\* Largest declared segment count and largest segment id.
MaxSeg == 2

SeqMax(s, m) ==
    LET S == {s[i] : i \in 1..Len(s)} \cup {m}
    IN  CHOOSE x \in S : \A y \in S : y <= x

\* ResizeChecks accepting a segment id equal to the segment count.
ResizeChecks_OffByOne(data, segment_ids, num_segments) ==
    /\ \/ (Len(num_segments.dims) = 1 /\ num_segments.dims[1] = 1)
       \/ Len(num_segments.dims) = 0
    /\ segment_ids.dims[1] = data.dims[1]
    /\ SeqMax(segment_ids.data, -1) <= num_segments.data[1]

\* ResizeOutputTensor up to the call of ResizeTensor: TRUE iff every
\* TF_LITE_ENSURE of it passes.
ResizeChecks(data, segment_ids, num_segments) ==
    /\ \/ (Len(num_segments.dims) = 1 /\ num_segments.dims[1] = 1)
       \/ Len(num_segments.dims) = 0
    /\ segment_ids.dims[1] = data.dims[1]
    /\ SeqMax(segment_ids.data, -1) < num_segments.data[1]

\* The shape ResizeOutputTensor hands to ResizeTensor.
ResizeShape(data, num_segments) ==
    [i \in 1..Len(data.dims) |->
        IF i = 1 THEN num_segments.data[1] ELSE data.dims[i]]

\* Width of a row of the data tensor (product of the dimensions after the
\* first).
RowWidth(dims) == FlatSizeSkipDim(dims, 0)

RECURSIVE RowProd(_, _, _, _, _)
\* Product of element col of the rows 1..n of data whose segment id is s.
RowProd(data, ids, s, col, n) ==
    IF n = 0 THEN 1
    ELSE (IF ids[n] = s THEN data.data[(n - 1) * RowWidth(data.dims) + col]
                       ELSE 1)
         * RowProd(data, ids, s, col, n - 1)

\* The reduction: output row s is the product of the data rows whose
\* segment id is s, 1 where there is none.
UnsortedSegmentProd(data, segment_ids, out) ==
    LET width == RowWidth(data.dims)
    IN  [k \in 1..Len(out.data) |->
            RowProd(data, segment_ids.data, (k - 1) \div width,
                    ((k - 1) % width) + 1, data.dims[1])]

SegResized(out, shape, j) ==
    [out EXCEPT !.dims = shape,
                !.data = [k \in 1..FlatSize(shape) |-> j]]

SegPrepare ==
    /\ seg.pc = "init"
    /\ IF \/ seg.numInputs # 3
          \/ seg.numOutputs # 1
          \/ seg.data.type \notin {kTfLiteInt32, kTfLiteFloat32}
          \/ seg.ids.type # kTfLiteInt32
       THEN seg' = [seg EXCEPT !.pc = "failed", !.status = kTfLiteError]
       ELSE IF seg.data.dynamic \/ ~seg.ids.constant \/ ~seg.num.constant
       THEN seg' = [seg EXCEPT !.out.dynamic = TRUE,
                               !.pc = "prepared", !.status = kTfLiteOk]
       ELSE IF ResizeChecks(seg.data, seg.ids, seg.num)
       THEN \E j \in {0, 1} :
              seg' = [seg EXCEPT
                        !.out = SegResized(seg.out,
                                           ResizeShape(seg.data, seg.num), j),
                        !.pc = "prepared", !.status = kTfLiteOk]
       ELSE seg' = [seg EXCEPT !.pc = "failed", !.status = kTfLiteError]
    /\ UNCHANGED qvars

SegEval ==
    /\ seg.pc = "prepared"
    /\ IF seg.out.dynamic /\ ~ResizeChecks(seg.data, seg.ids, seg.num)
       THEN seg' = [seg EXCEPT !.pc = "done", !.status = kTfLiteError]
       ELSE \E j \in {0, 1} :
              LET out1 == IF seg.out.dynamic
                          THEN SegResized(seg.out,
                                          ResizeShape(seg.data, seg.num), j)
                          ELSE seg.out
              IN  IF seg.data.dims[1] # seg.ids.dims[1]
                  THEN seg' = [seg EXCEPT !.out = out1, !.pc = "done",
                                          !.status = kTfLiteError]
                  ELSE IF seg.data.type \in {kTfLiteInt32, kTfLiteFloat32}
                  THEN seg' = [seg EXCEPT
                                 !.out = [out1 EXCEPT !.data =
                                     UnsortedSegmentProd(seg.data, seg.ids,
                                                         out1)],
                                 !.reduced = TRUE,
                                 !.pc = "done", !.status = kTfLiteOk]
                  ELSE seg' = [seg EXCEPT !.out = out1, !.pc = "done",
                                          !.status = kTfLiteError]
    /\ UNCHANGED qvars

NextSeg == SegPrepare \/ SegEval

\* <<NumInputs, data type, segment ids type>> of the nodes handed in.
SegKinds ==
    {<<3, kTfLiteInt32, kTfLiteInt32>>, <<3, kTfLiteFloat32, kTfLiteInt32>>,
     <<3, kTfLiteInt8, kTfLiteInt32>>, <<3, kTfLiteInt32, kTfLiteFloat32>>,
     <<2, kTfLiteInt32, kTfLiteInt32>>}

SegDataShapes == {<<n>> : n \in 0..MaxIds} \cup {<<n, 2>> : n \in 0..MaxIds}

IdSeqs == UNION {[1..n -> -1..MaxSeg] : n \in 0..MaxIds}

InitSeg ==
    /\ op = "none"
    /\ numInputs = 0
    /\ numOutputs = 0
    /\ input = << >>
    /\ output = << >>
    /\ pc = "off"
    /\ status = "none"
    /\ resized = FALSE
    /\ writes = 0
    /\ stage = 0
    /\ orig = << >>
    /\ out0 = << >>
    /\ \E kind \in SegKinds, dd \in SegDataShapes, ddyn \in BOOLEAN,
          ids \in IdSeqs, idc \in BOOLEAN,
          nd \in {<< >>, <<1>>, <<2>>}, nv \in -1..(MaxSeg + 1),
          nc \in BOOLEAN :
          seg = [numInputs |-> kind[1], numOutputs |-> 1,
                 data |-> [type |-> kind[2], dims |-> dd,
                           data |-> [k \in 1..FlatSize(dd) |-> 2],
                           dynamic |-> ddyn],
                 ids |-> [type |-> kind[3], dims |-> <<Len(ids)>>,
                          data |-> ids, constant |-> idc],
                 num |-> [dims |-> nd,
                          data |-> [k \in 1..(IF nd = <<2>> THEN 2 ELSE 1)
                                      |-> nv],
                          constant |-> nc],
                 out |-> [dims |-> <<0>>, data |-> << >>, dynamic |-> FALSE],
                 pc |-> "init", status |-> "none", reduced |-> FALSE]

SpecSeg == InitSeg /\ [][NextSeg]_vars
\* ================================================================ claims
Rows(dims) == FlatSizeSkipDim(dims, Len(dims) - 1)
Cols(dims) == dims[Len(dims)]

\* Bit of element (r, c), both zero-based, of a packed buffer whose rows
\* span GetBitpackedSize(cols) words each.
RowBit(words, cols, r, c) ==
    words[r * GetBitpackedSize(cols) + (c \div W) + 1][(c % W) + 1]

\* Bit of the element of flattened index f (zero-based) of a packed buffer.
FlatBit(words, f) == words[(f \div W) + 1][(f % W) + 1]

\* Shapes where the flattened index and the row-major view name the same
\* bit: at most one row, or a last dimension that is a multiple of W.
WordAligned(dims) == Rows(dims) <= 1 \/ Cols(dims) % W = 0

Saturate(x) == IF x > 127 THEN 127 ELSE IF x < -128 THEN -128 ELSE x

QuantizeDone ==
    stage = 1 /\ op = "Quantize" /\ pc = "done" /\ status = kTfLiteOk
DequantizeDone ==
    stage = 1 /\ op = "Dequantize" /\ pc = "done" /\ status = kTfLiteOk
PackUnpackDone ==
    stage = 2 /\ op = "Dequantize" /\ pc = "done" /\ status = kTfLiteOk
UnpackPackDone ==
    stage = 2 /\ op = "Quantize" /\ pc = "done" /\ status = kTfLiteOk

C2_PackedShape ==
    (op = "Quantize" /\ pc = "prepared")
        => /\ status = kTfLiteOk
           /\ Len(output.dims) = Len(input.dims)
           /\ \A i \in 1..(Len(input.dims) - 1) : output.dims[i] = input.dims[i]
           /\ LET d == Cols(input.dims)
                  p == Cols(output.dims)
              IN  /\ p >= 0
                  /\ p * W >= d
                  /\ (p - 1) * W < d
                  /\ (d = 0 => p = 0)

C2_Witness ==
    /\ op = "Quantize"
    /\ pc = "prepared"
    /\ Len(input.dims) = 2
    /\ input.dims[1] = 2
    /\ Cols(input.dims) = W + 1
    /\ output.dims = <<2, 2>>

\* The preconditions of C3: arity, datatypes, equal ranks and equal leading
\* dimensions.
DequantizeWellTyped ==
    /\ numInputs = 1
    /\ numOutputs = 1
    /\ input.type = kTfLiteInt32
    /\ output.type \in Supported
    /\ Len(input.dims) = Len(output.dims)
    /\ \A i \in 1..(Len(input.dims) - 1) : output.dims[i] = input.dims[i]

\* n is an unpacked size a packed size p stands for.
InUnpackRange(p, n) ==
    IF p = 0 THEN n = 0 ELSE (p - 1) * W < n /\ n <= p * W

\* C3: DequantizePrepare on a well-typed node returns Ok exactly when the
\* declared last dimension is in the range of the packed last dimension,
\* and it leaves the output tensor as it was.
C3_ValidateOnly ==
    (op = "Dequantize" /\ pc \in {"prepared", "failed"} /\ DequantizeWellTyped)
        => /\ (status = kTfLiteOk) <=>
                 InUnpackRange(Cols(input.dims), Cols(output.dims))
           /\ status \in {kTfLiteOk, kTfLiteError}
           /\ output = out0
           /\ ~resized

C3_Witness ==
    /\ op = "Dequantize"
    /\ stage = 1
    /\ pc = "prepared"
    /\ status = kTfLiteOk
    /\ Len(input.dims) = 2
    /\ Cols(input.dims) = 2
    /\ Cols(output.dims) = W + 1
    /\ output = out0

\* C4: for float32 and int8 input the packed bit of every element is 1 iff
\* the element is less than the threshold, 0 for float32 and the tensor's
\* zero point for int8.
C4_NumericThreshold ==
    (QuantizeDone /\ input.type \in {kTfLiteFloat32, kTfLiteInt8})
        => \A f \in 1..Len(input.data) :
              LET z == IF input.type = kTfLiteFloat32 THEN 0
                       ELSE input.zero_point
              IN  FlatBit(output.data, f - 1) =
                     (IF input.data[f] < z THEN 1 ELSE 0)

C4_Witness ==
    /\ QuantizeDone
    /\ input.type = kTfLiteInt8
    /\ input.zero_point = 1
    /\ Len(input.data) = 2
    /\ input.data[1] = 1
    /\ input.data[2] = 0
    /\ FlatBit(output.data, 0) = 0
    /\ FlatBit(output.data, 1) = 1

\* C5: a boolean element packs to bit 1 iff its storage byte is 0, and a
\* boolean destination receives true for bit 0 and false for bit 1.
C5_BoolInversion ==
    /\ (QuantizeDone /\ input.type = kTfLiteBool)
          => \A f \in 1..Len(input.data) :
                FlatBit(output.data, f - 1) =
                   (IF input.data[f] = 0 THEN 1 ELSE 0)
    /\ (op = "Dequantize" /\ pc = "done" /\ status = kTfLiteOk
          /\ output.type = kTfLiteBool)
          => \A c \in 1..Len(output.data) :
                output.data[c] =
                   (IF FlatBit(input.data, c - 1) = 0 THEN 1 ELSE 0)

C5_Witness ==
    /\ QuantizeDone
    /\ input.type = kTfLiteBool
    /\ Len(input.data) = 2
    /\ input.data[1] = 255
    /\ input.data[2] = 0
    /\ FlatBit(output.data, 0) = 0
    /\ FlatBit(output.data, 1) = 1

\* C6 (as stated): for an int8 destination every element is zero_point +
\* offset for bit 0 and zero_point - offset for bit 1, each saturated to
\* -128..127, for every zero_point and offset.
C6_Saturates ==
    (op = "Dequantize" /\ pc = "done" /\ status = kTfLiteOk
        /\ output.type = kTfLiteInt8)
        => \A c \in 1..Len(output.data) :
              LET offset == TfLiteRound(output.scale)
              IN  output.data[c] =
                     (IF FlatBit(input.data, c - 1) = 0
                      THEN Saturate(output.zero_point + offset)
                      ELSE Saturate(output.zero_point - offset))

\* The quantization parameters an int8 tensor is specified to carry: a
\* zero point in -128..127 and a positive scale.  Within them C6 holds.
C6_SaturatesInRange ==
    (op = "Dequantize" /\ pc = "done" /\ status = kTfLiteOk
        /\ output.type = kTfLiteInt8
        /\ output.zero_point \in -128..127
        /\ TfLiteRound(output.scale) >= 0)
        => \A c \in 1..Len(output.data) :
              LET offset == TfLiteRound(output.scale)
              IN  output.data[c] =
                     (IF FlatBit(input.data, c - 1) = 0
                      THEN Saturate(output.zero_point + offset)
                      ELSE Saturate(output.zero_point - offset))

\* The contract violations Prepare is to reject.
QuantizeViolation ==
    \/ numInputs # 1
    \/ numOutputs # 1
    \/ input.type \notin Supported
    \/ output.type # kTfLiteInt32
    \/ Len(input.dims) # Len(output.dims)

DequantizeViolation ==
    \/ numInputs # 1
    \/ numOutputs # 1
    \/ input.type # kTfLiteInt32
    \/ output.type \notin Supported
    \/ Len(input.dims) # Len(output.dims)
    \/ \E i \in 1..(Len(input.dims) - 1) : output.dims[i] # input.dims[i]
    \/ ~InUnpackRange(Cols(input.dims), Cols(output.dims))

Untouched == output = out0 /\ ~resized /\ writes = 0

\* C7: a Prepare on a node that violates the contract returns Error before
\* any resize, and an Eval on an unsupported datatype returns Error; in
\* both cases the output tensor is as the host handed it in.
C7_ErrorsBeforeOutput ==
    /\ (op = "Quantize" /\ pc \in {"prepared", "failed"} /\ QuantizeViolation)
          => (status = kTfLiteError /\ pc = "failed" /\ Untouched)
    /\ (op = "Dequantize" /\ pc \in {"prepared", "failed"}
          /\ DequantizeViolation)
          => (status = kTfLiteError /\ pc = "failed" /\ Untouched)
    /\ pc = "failed" => Untouched
    /\ (op = "Quantize" /\ pc = "done" /\ input.type \notin Supported)
          => (status = kTfLiteError /\ Untouched)
    /\ (op = "Dequantize" /\ pc = "done" /\ output.type \notin Supported)
          => (status = kTfLiteError /\ Untouched)

C7_Witness ==
    /\ op = "Quantize"
    /\ pc = "failed"
    /\ status = kTfLiteError
    /\ numInputs = 1
    /\ numOutputs = 1
    /\ input.type = kTfLiteBool
    /\ output.type = kTfLiteFloat32
    /\ Len(output.data) > 0
    /\ Untouched

\* C8: after Pack every position beyond the last element in a partially
\* filled final word is 0, whatever the buffer held.
C8_ZeroPadding ==
    QuantizeDone
        => LET count == FlatSize(input.dims)
               last == CeilDiv(count, W)
           IN  \A i \in 1..W :
                  (last - 1) * W + i > count => output.data[last][i] = 0

C8_Witness ==
    /\ QuantizeDone
    /\ Rows(input.dims) = 1
    /\ Cols(input.dims) = W + 1
    /\ Len(output.data) = 2
    /\ \A f \in 1..Len(input.data) : input.data[f] = 0
    /\ output.data[1] = OneWord
    /\ output.data[2][1] = 1
    /\ \A i \in 2..W : output.data[2][i] = 0

\* The numeric tensor the first node unpacked into.
NumericRoundTrip ==
    UnpackPackDone /\ input.type \in {kTfLiteFloat32, kTfLiteInt8}

\* Every valid bit of the buffer the first node unpacked is the bit the
\* second node packed at the same place.
BitsSurvive ==
    /\ output.dims = orig.dims
    /\ \A r \in 0..(Rows(input.dims) - 1), c \in 0..(Cols(input.dims) - 1) :
          RowBit(output.data, Cols(input.dims), r, c) =
             RowBit(orig.data, Cols(input.dims), r, c)

IdTooLarge == \E i \in 1..Len(seg.ids.data) : seg.ids.data[i] >= seg.num.data[1]
IdNegative == \E i \in 1..Len(seg.ids.data) : seg.ids.data[i] < 0

SegShapeOk ==
    /\ Len(seg.out.dims) = Len(seg.data.dims)
    /\ seg.out.dims[1] = seg.num.data[1]
    /\ \A i \in 2..Len(seg.data.dims) : seg.out.dims[i] = seg.data.dims[i]

\* C10 (as stated): when the reduction runs every segment id is at least 0
\* and below the segment count and the output has segment-count rows; a
\* node with a violating id ends in Error without the reduction.
C10_IdsAreRowIndexes ==
    /\ seg.reduced => (~IdTooLarge /\ ~IdNegative /\ SegShapeOk)
    /\ (seg.pc \in {"failed", "done"} /\ (IdTooLarge \/ IdNegative))
          => (seg.status = kTfLiteError /\ ~seg.reduced)

\* C10 (amended): when the reduction runs every segment id is below the
\* segment count and the output has segment-count rows; a node with an id
\* not below the count ends in Error without the reduction.  Negative ids
\* are not rejected.
C10_IdsBelowCount ==
    /\ seg.reduced => (~IdTooLarge /\ SegShapeOk)
    /\ (seg.pc \in {"failed", "done"} /\ IdTooLarge)
          => (seg.status = kTfLiteError /\ ~seg.reduced)

C10_Witness ==
    /\ seg.reduced
    /\ seg.out.dynamic
    /\ seg.ids.data = <<1, 0>>
    /\ seg.num.data[1] = 2
    /\ seg.data.dims = <<2, 2>>
    /\ seg.out.dims = <<2, 2>>
    /\ seg.out.data = <<2, 2, 2, 2>>
====
